---------------------------- MODULE Spec2Model ----------------------------
(***************************************************************************)
(* A model of harhar's Recorder: the client-side RoundTrip interceptor,    *)
(* the server-side ServeHTTP interceptor, the body capture functions       *)
(* makeRequest / makeResponse, the HARResponseWriter and WriteFile.        *)
(*                                                                         *)
(* Six specifications share the same actions:                              *)
(*   Spec      several goroutines calling one Recorder concurrently; the   *)
(*             wrapped transport fires no trace hooks and time stands      *)
(*             still;                                                      *)
(*   SpecTxn   one call at a time with a ticking clock, the httptrace      *)
(*             hooks of the transport and a handler writing step by step;  *)
(*   SpecLog   the goroutines of Spec with repeated WriteFile calls and    *)
(*             trace hooks firing after the wrapped call returned;         *)
(*   SpecNested  goroutines whose handlers call RoundTrip of the same      *)
(*             Recorder;                                                   *)
(*   SpecBody  makeRequest / makeResponse applied to byte-level bodies;    *)
(*   SpecHeaders  the header and query capture of makeRequest /            *)
(*             makeResponse.                                               *)
(***************************************************************************)
EXTENDS Integers, Sequences, FiniteSets, TLC

(***************************************************************************)
(* Bounds of the model.                                                    *)
(***************************************************************************)
\* goroutines calling the Recorder in Spec
NumTasks == 2
\* longest body, in bytes, given to makeRequest / makeResponse in SpecBody
MaxBody == 3
\* last value of the millisecond clock in SpecTxn
MaxClock == 3
\* number of writer operations a handler performs in SpecTxn
MaxHandlerOps == 2
\* number of WriteFile calls one goroutine makes in SpecLog
MaxFlushes == 2
\* most header lines of a message, and longest query string in bytes, in
\* SpecHeaders
MaxHeaderLines == 2
MaxQuery == 3

(***************************************************************************)
(* Values.                                                                 *)
(***************************************************************************)
\* the nil error
NoErr == "nil"
\* the bytes bodies are made of; "%" is never followed by two hex digits,
\* so it always starts an invalid URL escape
Byte == {"k", "v", "=", "&", "%"}

RECURSIVE SeqsUpTo(_, _)
SeqsUpTo(S, n) ==
    IF n = 0 THEN {<<>>}
    ELSE LET shorter == SeqsUpTo(S, n - 1)
         IN shorter \cup {Append(s, x) : s \in {q \in shorter : Len(q) = n - 1}, x \in S}

HeaderNames == {"Content-Type", "Set-Cookie"}
FormURLEncoded == "application/x-www-form-urlencoded"
OctetStream == "application/octet-stream"
\* declared content types: none, raw, form, the two multipart spellings the
\* switch of makeRequest names, and a multipart type as it appears on the wire
CTypes == {"", "text/plain", FormURLEncoded, "multipart/form-data", "form-data",
           "multipart/form-data; boundary=x"}

\* http.Header: header name -> the values set for it, in order
EmptyHeader == [n \in HeaderNames |-> <<>>]
\* http.Header.Get: the first value, or ""
HeaderGet(h, n) == IF h[n] = <<>> THEN "" ELSE h[n][1]
\* http.Header.Add
HeaderAdd(h, n, v) == [h EXCEPT ![n] = Append(@, v)]
\* http.Header.Set
HeaderSet(h, n, v) == [h EXCEPT ![n] = <<v>>]
HeaderWithCT(ct) == IF ct = "" THEN EmptyHeader ELSE HeaderSet(EmptyHeader, "Content-Type", ct)

(***************************************************************************)
(* Body streams (io.ReadCloser): the bytes, the read position, and whether *)
(* reading ends in an error instead of EOF.                                *)
(***************************************************************************)
NilBody == [nil |-> TRUE, data |-> <<>>, pos |-> 0, bad |-> FALSE]
\* io.NopCloser(bytes.NewReader(d))
NewReader(d) == [nil |-> FALSE, data |-> d, pos |-> 0, bad |-> FALSE]
Remaining(b) == SubSeq(b.data, b.pos + 1, Len(b.data))
\* io.ReadAll: the bytes from the position on, the error, the drained stream
ReadAll(b) ==
    [data |-> Remaining(b),
     err  |-> IF b.bad THEN "read error" ELSE NoErr,
     body |-> [b EXCEPT !.pos = Len(b.data)]]
\* SeekStart with the rewind forgotten: the stream stays where parsing stopped
SeekStartForgotten(b) == b
\* bodbuf.Seek(0, io.SeekStart)
SeekStart(b) == [b EXCEPT !.pos = 0]

(***************************************************************************)
(* url.ParseQuery over the model's bytes.                                  *)
(***************************************************************************)
\* index of the first x in s, or 0
RECURSIVE IndexOf(_, _, _)
IndexOf(s, x, i) ==
    IF i > Len(s) THEN 0 ELSE IF s[i] = x THEN i ELSE IndexOf(s, x, i + 1)

\* strings.Cut(s, x)
CutBefore(s, x) == LET i == IndexOf(s, x, 1) IN IF i = 0 THEN s ELSE SubSeq(s, 1, i - 1)
CutAfter(s, x) == LET i == IndexOf(s, x, 1) IN IF i = 0 THEN <<>> ELSE SubSeq(s, i + 1, Len(s))

\* url.QueryUnescape fails on a "%" that two hex digits do not follow
BadEscape(s) == IndexOf(s, "%", 1) # 0

\* url.ParseQuery: the pairs of the well-formed pieces, and whether a piece
\* was malformed (the piece is skipped, the first error is returned)
RECURSIVE ParseQuery(_)
ParseQuery(q) ==
    IF q = <<>> THEN [vals |-> <<>>, err |-> NoErr]
    ELSE LET piece == CutBefore(q, "&")
             rest  == ParseQuery(CutAfter(q, "&"))
             key   == CutBefore(piece, "=")
             value == CutAfter(piece, "=")
         IN IF piece = <<>> THEN rest
            ELSE IF BadEscape(key) \/ BadEscape(value)
                 THEN [vals |-> rest.vals, err |-> "invalid URL escape"]
                 ELSE [vals |-> <<[Name |-> key, Value |-> value]>> \o rest.vals,
                       err  |-> rest.err]

(***************************************************************************)
(* http.Request as makeRequest sees it.                                    *)
(***************************************************************************)
NoPostForm == [set |-> FALSE, vals |-> <<>>]
NoMultipartForm == [set |-> FALSE, File |-> <<>>, Value |-> <<>>]
\* a multipart form an earlier reader of the request has already parsed
ParsedMultipartForms ==
    {[set |-> TRUE,
      File |-> <<[Name |-> <<"k">>, FileName |-> "f.txt", ContentType |-> "text/plain",
                  content |-> <<"v", "v">>, bad |-> bad]>>,
      Value |-> <<[Name |-> <<"v">>, Value |-> <<"k">>]>>] : bad \in BOOLEAN}

HTTPRequest(method, url, ct, body, mpf) ==
    [Method |-> method, URL |-> url, Header |-> HeaderWithCT(ct), Body |-> body,
     PostForm |-> NoPostForm, MultipartForm |-> mpf]

\* http.Request.ParseForm: reads the body of a POST, PUT or PATCH whose
\* media type is application/x-www-form-urlencoded
ParseForm(hr) ==
    IF hr.PostForm.set THEN [hr |-> hr, err |-> NoErr]
    ELSE IF hr.Method \in {"POST", "PUT", "PATCH"} /\ ~hr.Body.nil
            /\ HeaderGet(hr.Header, "Content-Type") = FormURLEncoded
         THEN LET rd == ReadAll(hr.Body)
                  pq == ParseQuery(rd.data)
              IN [hr  |-> [hr EXCEPT !.Body = rd.body,
                                     !.PostForm = [set |-> TRUE, vals |-> pq.vals]],
                  err |-> IF rd.err # NoErr THEN rd.err ELSE pq.err]
         ELSE [hr |-> [hr EXCEPT !.PostForm = [set |-> TRUE, vals |-> <<>>]], err |-> NoErr]

\* http.Request.ParseMultipartForm: ParseForm first; a form parsed earlier is
\* kept; otherwise the Content-Type must carry a boundary parameter, which
\* neither "multipart/form-data" nor "form-data" does
ParseMultipartForm(hr) ==
    LET pf == ParseForm(hr)
    IN IF pf.hr.MultipartForm.set THEN [hr |-> pf.hr, err |-> NoErr]
       ELSE IF HeaderGet(hr.Header, "Content-Type") = "multipart/form-data"
            THEN [hr |-> pf.hr, err |-> "no multipart boundary param in Content-Type"]
            ELSE [hr |-> pf.hr, err |-> "request Content-Type isn't multipart/form-data"]

(***************************************************************************)
(* harhar.Request and makeRequest.                                         *)
(***************************************************************************)
ZeroPostData == [MIMEType |-> "", Params |-> <<>>, Content |-> <<>>]
\* Request{}
ZeroRequest == [Method |-> "", URL |-> 0, BodySize |-> 0, Body |-> ZeroPostData]

\* some file part cannot be opened or read
FileFails(files) == \E i \in 1..Len(files) : files[i].bad
FileParams(files) ==
    [i \in 1..Len(files) |->
        [Name |-> files[i].Name, Value |-> files[i].content,
         FileName |-> files[i].FileName, ContentType |-> files[i].ContentType]]
ValueParams(vals) ==
    [i \in 1..Len(vals) |->
        [Name |-> vals[i].Name, Value |-> vals[i].Value, FileName |-> "", ContentType |-> ""]]

\* the "default per RFC2616" of makeRequest and makeResponse
DefaultMIME(ct) == IF ct = "" THEN OctetStream ELSE ct

\* BodySize with the assignment left out: the -1 placeholder stays
BodySizeUnset(bodyData) == -1
\* r.BodySize = len(bodyData)
BodySize(bodyData) == Len(bodyData)

\* makeRequest: the harhar.Request, the error, and the http.Request as it is
\* left (body stream replaced, forms parsed)
makeRequest(hr) ==
    LET r0 == [Method |-> hr.Method, URL |-> hr.URL, BodySize |-> -1, Body |-> ZeroPostData]
    IN IF hr.Body.nil
       THEN [r |-> [r0 EXCEPT !.BodySize = 0], err |-> NoErr, hr |-> hr]
       ELSE
       LET rd == ReadAll(hr.Body) IN
       IF rd.err # NoErr
       THEN [r |-> r0, err |-> rd.err, hr |-> [hr EXCEPT !.Body = rd.body]]
       ELSE
       LET bodyData == rd.data
           hr1  == [hr EXCEPT !.Body = NewReader(bodyData)]
           mime == DefaultMIME(HeaderGet(hr.Header, "Content-Type"))
           r1   == [r0 EXCEPT !.BodySize = BodySize(bodyData), !.Body.MIMEType = mime]
       IN CASE mime \in {"form-data", "multipart/form-data"} ->
                 LET pm  == ParseMultipartForm(hr1)
                     hr2 == [pm.hr EXCEPT !.Body = SeekStart(@)]
                 IN IF pm.err # NoErr THEN [r |-> r1, err |-> pm.err, hr |-> pm.hr]
                    ELSE IF FileFails(hr2.MultipartForm.File)
                    THEN [r |-> r1, err |-> "file error", hr |-> hr2]
                    ELSE [r |-> [r1 EXCEPT !.Body.Params =
                                     FileParams(hr2.MultipartForm.File)
                                     \o ValueParams(hr2.MultipartForm.Value)],
                          err |-> NoErr, hr |-> hr2]
            [] mime = FormURLEncoded ->
                 LET pf  == ParseForm(hr1)
                     hr2 == [pf.hr EXCEPT !.Body = SeekStart(@)]
                 IN IF pf.err # NoErr THEN [r |-> r1, err |-> pf.err, hr |-> pf.hr]
                    ELSE [r |-> [r1 EXCEPT !.Body.Params = ValueParams(hr2.PostForm.vals)],
                          err |-> NoErr, hr |-> hr2]
            [] OTHER ->
                 [r |-> [r1 EXCEPT !.Body.Content = bodyData], err |-> NoErr, hr |-> hr1]

(***************************************************************************)
(* http.Response, harhar.Response and makeResponse.                        *)
(***************************************************************************)
NilResponse == [nil |-> TRUE, StatusCode |-> 0, Header |-> EmptyHeader, Body |-> NilBody]
HTTPResponse(code, header, body) ==
    [nil |-> FALSE, StatusCode |-> code, Header |-> header, Body |-> body]

ZeroContent == [Size |-> 0, MIMEType |-> "", Content |-> <<>>]
\* Response{}
ZeroResponse == [StatusCode |-> 0, BodySize |-> 0, Body |-> ZeroContent]

\* makeResponse: the harhar.Response, the error, and the http.Response as it
\* is left
makeResponse(hr) ==
    LET r0 == [StatusCode |-> hr.StatusCode, BodySize |-> -1, Body |-> ZeroContent]
        rd == ReadAll(hr.Body)
    IN IF rd.err # NoErr
       THEN [r |-> r0, err |-> rd.err, hr |-> [hr EXCEPT !.Body = rd.body]]
       ELSE [r |-> [r0 EXCEPT !.BodySize = Len(rd.data),
                              !.Body = [Size |-> Len(rd.data),
                                        MIMEType |-> DefaultMIME(HeaderGet(hr.Header, "Content-Type")),
                                        Content |-> rd.data]],
             err |-> NoErr,
             hr |-> [hr EXCEPT !.Body = NewReader(rd.data)]]

(***************************************************************************)
(* Headers, query parameters and HeadersSize, as makeRequest and           *)
(* makeResponse take them from the http.Header and url.Values maps.        *)
(***************************************************************************)
\* the orders in which a range over a Go map with the keys S visits them
MapOrders(S) ==
    {f \in [1..Cardinality(S) -> S] : \A i, j \in 1..Cardinality(S) : f[i] = f[j] => i = j}

\* for name, vals := range m { for _, val := range vals { append a pair } }
\* with the keys visited in the given order
RECURSIVE RangePairs(_, _)
RangePairs(m, order) ==
    IF order = <<>> THEN <<>>
    ELSE [i \in 1..Len(m[Head(order)]) |-> [Name |-> Head(order), Value |-> m[Head(order)][i]]]
         \o RangePairs(m, Tail(order))

\* the keys an http.Header holds
HeaderKeys(h) == {n \in HeaderNames : h[n] # <<>>}

\* the values of the pairs named k, in order
RECURSIVE ValuesOf(_, _)
ValuesOf(pairs, k) ==
    IF pairs = <<>> THEN <<>>
    ELSE (IF Head(pairs).Name = k THEN <<Head(pairs).Value>> ELSE <<>>)
         \o ValuesOf(Tail(pairs), k)

\* hr.URL.Query(): url.ParseQuery of the raw query, its error dropped; the
\* result is a map from key to the values of that key
Query(rawQuery) ==
    LET pairs == ParseQuery(rawQuery).vals
    IN [k \in {pairs[i].Name : i \in DOMAIN pairs} |-> ValuesOf(pairs, k)]

\* http.Header.Write: a line "Name: value" CRLF for every value
RECURSIVE HeaderWriteLen(_, _)
HeaderWriteLen(h, names) ==
    IF names = {} THEN 0
    ELSE LET n == CHOOSE x \in names : TRUE
             RECURSIVE LinesLen(_)
             LinesLen(vals) ==
                 IF vals = <<>> THEN 0
                 ELSE Len(n) + 2 + Len(Head(vals)) + 2 + LinesLen(Tail(vals))
         IN LinesLen(h[n]) + HeaderWriteLen(h, names \ {n})

\* r.HeadersSize = buf.Len() + 4
HeadersSize(h) == HeaderWriteLen(h, HeaderNames) + 4

\* the Headers, QueryParams and HeadersSize of makeRequest when the ranges
\* over hr.Header and over hr.URL.Query() visit the keys in the given orders
RequestMeta(hr, rawQuery, horder, qorder) ==
    [Headers |-> RangePairs(hr.Header, horder),
     QueryParams |-> RangePairs(Query(rawQuery), qorder),
     HeadersSize |-> HeadersSize(hr.Header)]

\* the Headers and HeadersSize of makeResponse
ResponseMeta(hr, horder) ==
    [Headers |-> RangePairs(hr.Header, horder),
     QueryParams |-> <<>>,
     HeadersSize |-> HeadersSize(hr.Header)]


(***************************************************************************)
(* State.                                                                  *)
(***************************************************************************)
VARIABLES
    \* the Recorder
    mu,        \* Recorder.mu: 0 when free, else the goroutine holding it
    Entries,   \* Recorder.HAR.Log.Entries
    \* the goroutines and the locals of the call each one is in
    pc,        \* where each goroutine is
    kind,      \* the method each goroutine called
    req,       \* the *http.Request of the call
    ent,       \* the Entry under construction
    tm,        \* the start markers of RoundTrip and startTime
    hook,      \* the last httptrace hook the transport fired
    fired,     \* the httptrace hooks the transport has fired
    dnsInfo,   \* httptrace.DNSDoneInfo.Addrs given to the DNSDone hook
    caller,    \* the goroutine whose handler made the call and waits for it, or 0
    calls,     \* how often the call invoked the wrapped transport / handler
    tres,      \* what the wrapped transport returned
    resp,      \* the *http.Response being captured
    capErr,    \* the errors of makeRequest and makeResponse
    ret,       \* what RoundTrip returned to its caller
    snap,      \* the slice the append statement loaded
    rw,        \* the HARResponseWriter handed to the wrapped handler
    hops,      \* writer operations the handler has performed
    hwrote,    \* what the handler wrote: every header value, every body byte
    w,         \* the real http.ResponseWriter
    doc,       \* what WriteFile serialized
    now,       \* the clock, in milliseconds
    \* makeRequest / makeResponse on their own
    bpc,       \* "request" or "response" before the capture, then "captured", "read"
    bin,       \* the body bytes of the message before the capture
    bhr,       \* the http.Request
    bres,      \* the http.Response
    bcap,      \* the result of makeRequest / makeResponse
    bgot,      \* what the next reader of the body stream read
    bquery,    \* hr.URL.RawQuery of the request
    bmeta      \* the headers, query parameters and header size of each capture

varsRec == <<mu, Entries, pc, kind, req, ent, tm, hook, fired, dnsInfo, caller, calls, tres,
             resp, capErr, ret, snap, rw, hops, hwrote, w, doc, now>>
varsBody == <<bpc, bin, bhr, bres, bcap, bgot, bquery, bmeta>>
varsTrace == <<fired, dnsInfo>>
vars == <<mu, Entries, pc, kind, req, ent, tm, hook, fired, dnsInfo, caller, calls, tres, resp,
          capErr, ret, snap, rw, hops, hwrote, w, doc, now, bpc, bin, bhr, bres, bcap, bgot,
          bquery, bmeta>>

(***************************************************************************)
(* SpecBody: makeRequest and makeResponse applied to bounded inputs, and   *)
(* the next reader of the stream they leave behind.                        *)
(***************************************************************************)
Bodies ==
    {NilBody} \cup {[NewReader(d) EXCEPT !.bad = b] : d \in SeqsUpTo(Byte, MaxBody), b \in BOOLEAN}
RequestInputs ==
    {HTTPRequest(m, 1, ct, b, NoMultipartForm) :
        m \in {"GET", "POST"}, ct \in CTypes, b \in Bodies}
    \cup
    {HTTPRequest(m, 1, ct, b, mpf) :
        m \in {"GET", "POST"}, ct \in {"multipart/form-data", "form-data"}, b \in Bodies,
        mpf \in ParsedMultipartForms}
ResponseInputs ==
    {HTTPResponse(200, HeaderWithCT(ct), b) :
        ct \in {"", "text/plain"}, b \in Bodies \ {NilBody}}

NoCapture == [r |-> ZeroRequest, err |-> NoErr]

InitBody ==
    /\ \/ /\ bpc = "request"
          /\ bhr \in RequestInputs
          /\ bres = HTTPResponse(200, EmptyHeader, NewReader(<<>>))
          /\ bin = bhr.Body.data
       \/ /\ bpc = "response"
          /\ bhr = HTTPRequest("GET", 1, "", NilBody, NoMultipartForm)
          /\ bres \in ResponseInputs
          /\ bin = bres.Body.data
    /\ bcap = NoCapture
    /\ bgot = <<>>
    /\ bquery = <<>>
    /\ bmeta = <<>>

\* Spec and SpecTxn do not use the capture on its own
IdleBody ==
    /\ bpc = "off"
    /\ bin = <<>>
    /\ bhr = HTTPRequest("GET", 1, "", NilBody, NoMultipartForm)
    /\ bres = HTTPResponse(200, EmptyHeader, NewReader(<<>>))
    /\ bcap = NoCapture
    /\ bgot = <<>>
    /\ bquery = <<>>
    /\ bmeta = <<>>

\* ent.Request, err = makeRequest(req)
CaptureRequest ==
    /\ bpc = "request"
    /\ LET m == makeRequest(bhr)
       IN /\ bcap' = [r |-> m.r, err |-> m.err]
          /\ bhr' = m.hr
    /\ bpc' = "capturedRequest"
    /\ UNCHANGED <<bin, bres, bgot, bquery, bmeta>>
    /\ UNCHANGED varsRec

\* ent.Response, err = makeResponse(resp)
CaptureResponse ==
    /\ bpc = "response"
    /\ LET m == makeResponse(bres)
       IN /\ bcap' = [r |-> ZeroRequest, err |-> m.err]
          /\ bres' = m.hr
    /\ bpc' = "capturedResponse"
    /\ UNCHANGED <<bin, bhr, bgot, bquery, bmeta>>
    /\ UNCHANGED varsRec

\* the wrapped transport or handler (the request), or the caller (the
\* response), reads the stream the capture left
ReadBack ==
    /\ bpc \in {"capturedRequest", "capturedResponse"}
    /\ LET b == IF bpc = "capturedRequest" THEN bhr.Body ELSE bres.Body
       IN bgot' = ReadAll(b).data
    /\ bpc' = IF bpc = "capturedRequest" THEN "readRequest" ELSE "readResponse"
    /\ UNCHANGED <<bin, bhr, bres, bcap, bquery, bmeta>>
    /\ UNCHANGED varsRec

NextBody == CaptureRequest \/ CaptureResponse \/ ReadBack

(***************************************************************************)
(* SpecHeaders: the headers and the query string of a message, captured    *)
(* twice.                                                                  *)
(***************************************************************************)
HeaderValues == {"a", "text/plain"}
\* the header lines of a message in the order they were sent
WireHeaders ==
    SeqsUpTo([Name : HeaderNames, Value : HeaderValues], MaxHeaderLines)
\* the http.Header net/http builds from the lines
RECURSIVE HeaderFromWire(_)
HeaderFromWire(lines) ==
    IF lines = <<>> THEN EmptyHeader
    ELSE LET last == lines[Len(lines)]
         IN HeaderAdd(HeaderFromWire(SubSeq(lines, 1, Len(lines) - 1)), last.Name, last.Value)

InitHeaders ==
    /\ \E lines \in WireHeaders :
          \/ /\ bpc = "requestHeaders"
             /\ bhr = [HTTPRequest("GET", 1, "", NilBody, NoMultipartForm)
                          EXCEPT !.Header = HeaderFromWire(lines)]
             /\ bres = HTTPResponse(200, EmptyHeader, NewReader(<<>>))
             /\ bquery \in SeqsUpTo(Byte, MaxQuery)
          \/ /\ bpc = "responseHeaders"
             /\ bhr = HTTPRequest("GET", 1, "", NilBody, NoMultipartForm)
             /\ bres = HTTPResponse(200, HeaderFromWire(lines), NewReader(<<>>))
             /\ bquery = <<>>
    /\ bin = <<>>
    /\ bcap = NoCapture
    /\ bgot = <<>>
    /\ bmeta = <<>>

\* makeRequest on the request, a first and a second time
CaptureRequestMeta ==
    /\ bpc \in {"requestHeaders", "capturedRequestHeaders"}
    /\ \E horder \in MapOrders(HeaderKeys(bhr.Header)),
          qorder \in MapOrders(DOMAIN Query(bquery)) :
          bmeta' = Append(bmeta, RequestMeta(bhr, bquery, horder, qorder))
    /\ bpc' = IF bpc = "requestHeaders" THEN "capturedRequestHeaders"
              ELSE "recapturedRequestHeaders"
    /\ UNCHANGED <<bin, bhr, bres, bcap, bgot, bquery>>
    /\ UNCHANGED varsRec

\* makeResponse on the response, a first and a second time
CaptureResponseMeta ==
    /\ bpc \in {"responseHeaders", "capturedResponseHeaders"}
    /\ \E horder \in MapOrders(HeaderKeys(bres.Header)) :
          bmeta' = Append(bmeta, ResponseMeta(bres, horder))
    /\ bpc' = IF bpc = "responseHeaders" THEN "capturedResponseHeaders"
              ELSE "recapturedResponseHeaders"
    /\ UNCHANGED <<bin, bhr, bres, bcap, bgot, bquery>>
    /\ UNCHANGED varsRec

NextHeaders == CaptureRequestMeta \/ CaptureResponseMeta


(***************************************************************************)
(* The Recorder: values of the locals.                                     *)
(***************************************************************************)
Tasks == 1..NumTasks

ZeroTimings ==
    [Send |-> 0, Wait |-> 0, Receive |-> 0, Blocked |-> 0, DNS |-> 0, Connect |-> 0, SSL |-> 0]
\* Entry{}
ZeroEntry ==
    [Start |-> 0, Time |-> 0, Request |-> ZeroRequest, Response |-> ZeroResponse,
     Timings |-> ZeroTimings, ServerIP |-> ""]
ZeroMarkers ==
    [dnsStart |-> 0, tlsStart |-> 0, connWaitStart |-> 0, connStart |-> 0,
     sendStart |-> 0, waitStart |-> 0, respStart |-> 0, startTime |-> 0]
NotCalled == [called |-> FALSE, resp |-> NilResponse, err |-> NoErr]
NoReturn == [returned |-> FALSE, resp |-> NilResponse, err |-> NoErr]
NoCapErr == [req |-> NoErr, resp |-> NoErr]
\* &HARResponseWriter{}
ZeroWriter == [body |-> <<>>, statusCode |-> 0, header |-> EmptyHeader, didWriteHeaders |-> FALSE]
\* the real http.ResponseWriter before anything reached it
FreshWriter == [header |-> EmptyHeader, status |-> 0, body |-> <<>>]
\* status is the code the handler last gave to WriteHeader, 0 when it gave none
NothingWritten == [header |-> EmptyHeader, body |-> <<>>, status |-> 0]
\* a WriteFile call: the entries its document holds, the byte count it
\* returned, the log when json.Marshal began and when it was through
NoFlush == [entries |-> <<>>, n |-> 0, from |-> <<>>, to |-> <<>>]
\* the WriteFile calls of a goroutine: the last one and the one before it
NoDoc == [written |-> FALSE, entries |-> <<>>, n |-> 0, from |-> <<>>, to |-> <<>>,
          flushes |-> 0, prev |-> NoFlush]

InitRec ==
    /\ mu = 0
    /\ Entries = <<>>
    /\ pc = [t \in Tasks |-> "idle"]
    /\ kind = [t \in Tasks |-> "none"]
    /\ req = [t \in Tasks |-> HTTPRequest("GET", t, "", NilBody, NoMultipartForm)]
    /\ ent = [t \in Tasks |-> ZeroEntry]
    /\ tm = [t \in Tasks |-> ZeroMarkers]
    /\ hook = [t \in Tasks |-> "none"]
    /\ fired = [t \in Tasks |-> {}]
    /\ dnsInfo = [t \in Tasks |-> <<>>]
    /\ caller = [t \in Tasks |-> 0]
    /\ calls = [t \in Tasks |-> 0]
    /\ tres = [t \in Tasks |-> NotCalled]
    /\ resp = [t \in Tasks |-> NilResponse]
    /\ capErr = [t \in Tasks |-> NoCapErr]
    /\ ret = [t \in Tasks |-> NoReturn]
    /\ snap = [t \in Tasks |-> <<>>]
    /\ rw = [t \in Tasks |-> ZeroWriter]
    /\ hops = [t \in Tasks |-> 0]
    /\ hwrote = [t \in Tasks |-> NothingWritten]
    /\ w = [t \in Tasks |-> FreshWriter]
    /\ doc = [t \in Tasks |-> NoDoc]
    /\ now = 0

\* the call of goroutine t returns: when a handler made the call, the handler
\* goes on
ReturnTo(t) ==
    [q \in Tasks |-> IF q = t THEN "done"
                     ELSE IF q = caller[t] THEN "sh.handler"
                     ELSE pc[q]]

\* MutexFree with the mutex left out: Lock never waits
MutexIgnored(m) == TRUE
\* sync.Mutex.Lock proceeds when no goroutine holds the mutex
MutexFree(m) == m = 0

\* InitialMarkers with the start times left at the zero time; startTime is
\* set apart from them, right before the wrapped call
InitialMarkersUnset(n) == [ZeroMarkers EXCEPT !.startTime = n]
\* "set a start time for everything": every marker is the time.Now() of the
\* call, and so is startTime
InitialMarkers(n) == [k \in DOMAIN ZeroMarkers |-> n]

\* TransportFailed with the check dropped: the error of the transport is not looked at
TransportFailedIgnored(err) == FALSE
\* the "if err != nil" after the wrapped RoundTrip
TransportFailed(err) == err # NoErr

(***************************************************************************)
(* Recorder.RoundTrip.                                                     *)
(***************************************************************************)
\* a goroutine calls RoundTrip with one of the requests R
RoundTripCall(t, R) ==
    /\ pc[t] = "idle"
    /\ \E r \in R : req' = [req EXCEPT ![t] = [r EXCEPT !.URL = t]]
    /\ kind' = [kind EXCEPT ![t] = "RoundTrip"]
    /\ pc' = [pc EXCEPT ![t] = "rt.lock"]
    /\ UNCHANGED <<mu, Entries, ent, tm, hook, calls, tres, resp, capErr, ret, snap,
                   rw, hops, hwrote, w, doc, now>>
    /\ UNCHANGED varsTrace
    /\ UNCHANGED caller
    /\ UNCHANGED varsBody

\* c.mu.Lock(); defer c.mu.Unlock()
RT_Lock(t) ==
    /\ pc[t] = "rt.lock"
    /\ MutexFree(mu)
    /\ mu' = t
    /\ pc' = [pc EXCEPT ![t] = "rt.makeRequest"]
    /\ UNCHANGED <<kind, Entries, req, ent, tm, hook, calls, tres, resp, capErr, ret, snap,
                   rw, hops, hwrote, w, doc, now>>
    /\ UNCHANGED varsTrace
    /\ UNCHANGED caller
    /\ UNCHANGED varsBody

\* ent.Request, err = makeRequest(req); on an error return nil, err; else set
\* the start markers, arm the trace and call the wrapped RoundTripper
RT_MakeRequest(t) ==
    /\ pc[t] = "rt.makeRequest"
    /\ LET m == makeRequest(req[t])
       IN /\ ent' = [ent EXCEPT ![t].Request = m.r]
          /\ req' = [req EXCEPT ![t] = m.hr]
          /\ capErr' = [capErr EXCEPT ![t].req = m.err]
          /\ IF m.err # NoErr
             THEN /\ ret' = [ret EXCEPT ![t] =
                                [returned |-> TRUE, resp |-> NilResponse, err |-> m.err]]
                  /\ mu' = 0
                  /\ pc' = ReturnTo(t)
                  /\ UNCHANGED <<tm, calls>>
             ELSE /\ tm' = [tm EXCEPT ![t] = InitialMarkers(now)]
                  /\ calls' = [calls EXCEPT ![t] = @ + 1]
                  /\ pc' = [pc EXCEPT ![t] = "rt.transport"]
                  /\ UNCHANGED <<ret, mu>>
    /\ UNCHANGED <<kind, Entries, hook, tres, resp, snap, rw, hops, hwrote, w, doc, now>>
    /\ UNCHANGED varsTrace
    /\ UNCHANGED caller
    /\ UNCHANGED varsBody

\* RT_TransportReturn calling the wrapped RoundTripper a second time after a
\* first error
RT_TransportReturnRetrying(t, R) ==
    /\ pc[t] = "rt.transport"
    /\ \E o \in R :
          /\ o.err = NoErr => hook[t] \in {"none", "GotFirstResponseByte"}
          /\ tres' = [tres EXCEPT ![t] = [called |-> TRUE, resp |-> o.resp, err |-> o.err]]
          /\ IF TransportFailed(o.err) /\ calls[t] < 2
             THEN /\ calls' = [calls EXCEPT ![t] = @ + 1]
                  /\ UNCHANGED <<ret, mu, pc, resp>>
             ELSE IF TransportFailed(o.err)
             THEN /\ ret' = [ret EXCEPT ![t] =
                                [returned |-> TRUE, resp |-> o.resp, err |-> o.err]]
                  /\ mu' = 0
                  /\ pc' = ReturnTo(t)
                  /\ UNCHANGED <<resp, calls>>
             ELSE /\ resp' = [resp EXCEPT ![t] = o.resp]
                  /\ pc' = [pc EXCEPT ![t] = "rt.makeResponse"]
                  /\ UNCHANGED <<ret, mu, calls>>
    /\ UNCHANGED <<kind, Entries, req, ent, tm, hook, capErr, snap, rw, hops, hwrote,
                   w, doc, now>>
    /\ UNCHANGED varsTrace
    /\ UNCHANGED caller
    /\ UNCHANGED varsBody
\* resp, err := c.RoundTripper.RoundTrip(req) returns one of the results R;
\* a transport that fires trace hooks has a response once the first byte
\* arrived, and can fail at any point
RT_TransportReturn(t, R) ==
    /\ pc[t] = "rt.transport"
    /\ \E o \in R :
          /\ o.err = NoErr => hook[t] \in {"none", "GotFirstResponseByte"}
          /\ tres' = [tres EXCEPT ![t] = [called |-> TRUE, resp |-> o.resp, err |-> o.err]]
          /\ IF TransportFailed(o.err)
             THEN /\ ret' = [ret EXCEPT ![t] =
                                [returned |-> TRUE, resp |-> o.resp, err |-> o.err]]
                  /\ mu' = 0
                  /\ pc' = ReturnTo(t)
                  /\ UNCHANGED resp
             ELSE /\ resp' = [resp EXCEPT ![t] = o.resp]
                  /\ pc' = [pc EXCEPT ![t] = "rt.makeResponse"]
                  /\ UNCHANGED <<ret, mu>>
    /\ UNCHANGED <<kind, Entries, req, ent, tm, hook, calls, capErr, snap, rw, hops, hwrote,
                   w, doc, now>>
    /\ UNCHANGED varsTrace
    /\ UNCHANGED caller
    /\ UNCHANGED varsBody

\* ent.Response, err = makeResponse(resp); Receive, Time and Start
RT_MakeResponse(t) ==
    /\ pc[t] = "rt.makeResponse"
    /\ LET m == makeResponse(resp[t])
       IN /\ ent' = [ent EXCEPT ![t].Response = m.r,
                                ![t].Timings.Receive = now - tm[t].respStart,
                                ![t].Time = now - tm[t].startTime,
                                ![t].Start = tm[t].startTime]
          /\ resp' = [resp EXCEPT ![t] = m.hr]
          /\ capErr' = [capErr EXCEPT ![t].resp = m.err]
    /\ pc' = [pc EXCEPT ![t] = "rt.append"]
    /\ UNCHANGED <<kind, mu, Entries, req, tm, hook, calls, tres, ret, snap, rw, hops, hwrote,
                   w, doc, now>>
    /\ UNCHANGED varsTrace
    /\ UNCHANGED caller
    /\ UNCHANGED varsBody

\* append(c.HAR.Log.Entries, ent) reads the slice
RT_AppendLoad(t) ==
    /\ pc[t] = "rt.append"
    /\ snap' = [snap EXCEPT ![t] = Entries]
    /\ pc' = [pc EXCEPT ![t] = "rt.appendStore"]
    /\ UNCHANGED <<kind, mu, Entries, req, ent, tm, hook, calls, tres, resp, capErr, ret,
                   rw, hops, hwrote, w, doc, now>>
    /\ UNCHANGED varsTrace
    /\ UNCHANGED caller
    /\ UNCHANGED varsBody

\* c.HAR.Log.Entries = the appended slice; return resp, err; the deferred Unlock
RT_AppendStore(t) ==
    /\ pc[t] = "rt.appendStore"
    /\ Entries' = Append(snap[t], ent[t])
    /\ ret' = [ret EXCEPT ![t] =
                  [returned |-> TRUE, resp |-> resp[t], err |-> capErr[t].resp]]
    /\ mu' = 0
    /\ pc' = ReturnTo(t)
    /\ UNCHANGED <<kind, req, ent, tm, hook, calls, tres, resp, capErr, snap, rw, hops, hwrote,
                   w, doc, now>>
    /\ UNCHANGED varsTrace
    /\ UNCHANGED caller
    /\ UNCHANGED varsBody


(***************************************************************************)
(* The httptrace.ClientTrace hooks of RoundTrip, in the order a transport  *)
(* fires them: GetConn, then for a new connection DNS, connect and TLS,    *)
(* then GotConn, WroteRequest, GotFirstResponseByte.                       *)
(***************************************************************************)
\* GetConn: connWaitStart = time.Now()
GetConn(t) ==
    /\ pc[t] = "rt.transport"
    /\ hook[t] \in {"none"}
    /\ tm' = [tm EXCEPT ![t].connWaitStart = now]
    /\ UNCHANGED ent
    /\ hook' = [hook EXCEPT ![t] = "GetConn"]
    /\ fired' = [fired EXCEPT ![t] = @ \cup {"GetConn"}]
    /\ UNCHANGED dnsInfo
    /\ UNCHANGED pc
    /\ UNCHANGED <<kind, mu, Entries, req, calls, tres, resp, capErr, ret, snap, rw, hops, hwrote,
                   w, doc, now>>
    /\ UNCHANGED caller
    /\ UNCHANGED varsBody

\* GotConn: Blocked = time.Since(connWaitStart); a pooled connection comes
\* right after GetConn
GotConn(t) ==
    /\ pc[t] = "rt.transport"
    /\ hook[t] \in {"GetConn", "ConnectDone", "TLSHandshakeDone"}
    /\ ent' = [ent EXCEPT ![t].Timings.Blocked = now - tm[t].connWaitStart]
    /\ UNCHANGED tm
    /\ hook' = [hook EXCEPT ![t] = "GotConn"]
    /\ fired' = [fired EXCEPT ![t] = @ \cup {"GotConn"}]
    /\ UNCHANGED dnsInfo
    /\ UNCHANGED pc
    /\ UNCHANGED <<kind, mu, Entries, req, calls, tres, resp, capErr, ret, snap, rw, hops, hwrote,
                   w, doc, now>>
    /\ UNCHANGED caller
    /\ UNCHANGED varsBody

\* DNSStart: dnsStart = time.Now()
DNSStart(t) ==
    /\ pc[t] = "rt.transport"
    /\ hook[t] \in {"GetConn"}
    /\ tm' = [tm EXCEPT ![t].dnsStart = now]
    /\ UNCHANGED ent
    /\ hook' = [hook EXCEPT ![t] = "DNSStart"]
    /\ fired' = [fired EXCEPT ![t] = @ \cup {"DNSStart"}]
    /\ UNCHANGED dnsInfo
    /\ UNCHANGED pc
    /\ UNCHANGED <<kind, mu, Entries, req, calls, tres, resp, capErr, ret, snap, rw, hops, hwrote,
                   w, doc, now>>
    /\ UNCHANGED caller
    /\ UNCHANGED varsBody

\* DNSDone: DNS = time.Since(dnsStart); ServerIP = dnsInfo.Addrs[0], which
\* panics when the lookup resolved no address
DNSDone(t, addrs) ==
    /\ pc[t] = "rt.transport"
    /\ hook[t] \in {"DNSStart"}
    /\ IF addrs = <<>>
       THEN /\ ent' = [ent EXCEPT ![t].Timings.DNS = now - tm[t].dnsStart]
            /\ pc' = [pc EXCEPT ![t] = "panicked"]
       ELSE /\ ent' = [ent EXCEPT ![t].Timings.DNS = now - tm[t].dnsStart,
                                  ![t].ServerIP = addrs[1]]
            /\ UNCHANGED pc
    /\ hook' = [hook EXCEPT ![t] = "DNSDone"]
    /\ fired' = [fired EXCEPT ![t] = @ \cup {"DNSDone"}]
    /\ dnsInfo' = [dnsInfo EXCEPT ![t] = addrs]
    /\ UNCHANGED tm
    /\ UNCHANGED <<kind, mu, Entries, req, calls, tres, resp, capErr, ret, snap, rw, hops, hwrote,
                   w, doc, now>>
    /\ UNCHANGED caller
    /\ UNCHANGED varsBody

\* ConnectStart: connStart = time.Now()
ConnectStart(t) ==
    /\ pc[t] = "rt.transport"
    /\ hook[t] \in {"GetConn", "DNSDone"}
    /\ tm' = [tm EXCEPT ![t].connStart = now]
    /\ UNCHANGED ent
    /\ hook' = [hook EXCEPT ![t] = "ConnectStart"]
    /\ fired' = [fired EXCEPT ![t] = @ \cup {"ConnectStart"}]
    /\ UNCHANGED dnsInfo
    /\ UNCHANGED pc
    /\ UNCHANGED <<kind, mu, Entries, req, calls, tres, resp, capErr, ret, snap, rw, hops, hwrote,
                   w, doc, now>>
    /\ UNCHANGED caller
    /\ UNCHANGED varsBody

\* ConnectDone: Connect = time.Since(connStart); sendStart = time.Now()
ConnectDone(t) ==
    /\ pc[t] = "rt.transport"
    /\ hook[t] \in {"ConnectStart"}
    /\ ent' = [ent EXCEPT ![t].Timings.Connect = now - tm[t].connStart]
    /\ tm' = [tm EXCEPT ![t].sendStart = now]
    /\ hook' = [hook EXCEPT ![t] = "ConnectDone"]
    /\ fired' = [fired EXCEPT ![t] = @ \cup {"ConnectDone"}]
    /\ UNCHANGED dnsInfo
    /\ UNCHANGED pc
    /\ UNCHANGED <<kind, mu, Entries, req, calls, tres, resp, capErr, ret, snap, rw, hops, hwrote,
                   w, doc, now>>
    /\ UNCHANGED caller
    /\ UNCHANGED varsBody

\* TLSHandshakeStart: tlsStart = time.Now()
TLSHandshakeStart(t) ==
    /\ pc[t] = "rt.transport"
    /\ hook[t] \in {"ConnectDone"}
    /\ tm' = [tm EXCEPT ![t].tlsStart = now]
    /\ UNCHANGED ent
    /\ hook' = [hook EXCEPT ![t] = "TLSHandshakeStart"]
    /\ fired' = [fired EXCEPT ![t] = @ \cup {"TLSHandshakeStart"}]
    /\ UNCHANGED dnsInfo
    /\ UNCHANGED pc
    /\ UNCHANGED <<kind, mu, Entries, req, calls, tres, resp, capErr, ret, snap, rw, hops, hwrote,
                   w, doc, now>>
    /\ UNCHANGED caller
    /\ UNCHANGED varsBody

\* TLSHandshakeDone: SSL = time.Since(tlsStart)
TLSHandshakeDone(t) ==
    /\ pc[t] = "rt.transport"
    /\ hook[t] \in {"TLSHandshakeStart"}
    /\ ent' = [ent EXCEPT ![t].Timings.SSL = now - tm[t].tlsStart]
    /\ UNCHANGED tm
    /\ hook' = [hook EXCEPT ![t] = "TLSHandshakeDone"]
    /\ fired' = [fired EXCEPT ![t] = @ \cup {"TLSHandshakeDone"}]
    /\ UNCHANGED dnsInfo
    /\ UNCHANGED pc
    /\ UNCHANGED <<kind, mu, Entries, req, calls, tres, resp, capErr, ret, snap, rw, hops, hwrote,
                   w, doc, now>>
    /\ UNCHANGED caller
    /\ UNCHANGED varsBody

\* WroteRequest: Send = time.Since(sendStart); waitStart = time.Now()
WroteRequest(t) ==
    /\ pc[t] = "rt.transport"
    /\ hook[t] \in {"GotConn"}
    /\ ent' = [ent EXCEPT ![t].Timings.Send = now - tm[t].sendStart]
    /\ tm' = [tm EXCEPT ![t].waitStart = now]
    /\ hook' = [hook EXCEPT ![t] = "WroteRequest"]
    /\ fired' = [fired EXCEPT ![t] = @ \cup {"WroteRequest"}]
    /\ UNCHANGED dnsInfo
    /\ UNCHANGED pc
    /\ UNCHANGED <<kind, mu, Entries, req, calls, tres, resp, capErr, ret, snap, rw, hops, hwrote,
                   w, doc, now>>
    /\ UNCHANGED caller
    /\ UNCHANGED varsBody

\* GotFirstResponseByte: Wait = time.Since(waitStart); respStart = time.Now()
GotFirstResponseByte(t) ==
    /\ pc[t] = "rt.transport"
    /\ hook[t] \in {"WroteRequest"}
    /\ ent' = [ent EXCEPT ![t].Timings.Wait = now - tm[t].waitStart]
    /\ tm' = [tm EXCEPT ![t].respStart = now]
    /\ hook' = [hook EXCEPT ![t] = "GotFirstResponseByte"]
    /\ fired' = [fired EXCEPT ![t] = @ \cup {"GotFirstResponseByte"}]
    /\ UNCHANGED dnsInfo
    /\ UNCHANGED pc
    /\ UNCHANGED <<kind, mu, Entries, req, calls, tres, resp, capErr, ret, snap, rw, hops, hwrote,
                   w, doc, now>>
    /\ UNCHANGED caller
    /\ UNCHANGED varsBody

\* DNSDone of a dial that was still resolving when the transport got its
\* connection elsewhere: the hook fires after the wrapped RoundTrip returned
\* and writes the ent of the closure
LateDNSDone(t, addrs) ==
    /\ kind[t] = "RoundTrip"
    /\ pc[t] \in {"rt.makeResponse", "rt.append", "rt.appendStore", "done"}
    /\ tres[t].called
    /\ "DNSDone" \notin fired[t]
    /\ addrs # <<>>
    /\ ent' = [ent EXCEPT ![t].Timings.DNS = now - tm[t].dnsStart,
                          ![t].ServerIP = addrs[1]]
    /\ fired' = [fired EXCEPT ![t] = @ \cup {"DNSDone"}]
    /\ dnsInfo' = [dnsInfo EXCEPT ![t] = addrs]
    /\ UNCHANGED <<kind, mu, Entries, pc, req, tm, hook, calls, tres, resp, capErr, ret, snap,
                   rw, hops, hwrote, w, doc, now>>
    /\ UNCHANGED caller
    /\ UNCHANGED varsBody

\* a millisecond passes
Tick ==
    /\ now < MaxClock
    /\ now' = now + 1
    /\ UNCHANGED <<kind, mu, Entries, pc, req, ent, tm, hook, calls, tres, resp, capErr, ret, snap,
                   rw, hops, hwrote, w, doc>>
    /\ UNCHANGED varsTrace
    /\ UNCHANGED caller
    /\ UNCHANGED varsBody


(***************************************************************************)
(* HARResponseWriter.                                                      *)
(***************************************************************************)
\* HARResponseWriter.WriteHeader
WriteHeader(x, statusCode) == [x EXCEPT !.statusCode = statusCode, !.didWriteHeaders = TRUE]
\* Write setting the status at every call, whether or not one is set
WriteOverwriting(x, b) == [WriteHeader(x, 200) EXCEPT !.body = @ \o b]
\* HARResponseWriter.Write
Write(x, b) ==
    LET x1 == IF ~x.didWriteHeaders THEN WriteHeader(x, 200) ELSE x
    IN [x1 EXCEPT !.body = @ \o b]
\* HARResponseWriter.AsResponse
AsResponse(x) == HTTPResponse(x.statusCode, x.header, NewReader(x.body))

\* the "copy headers" loop of ServeHTTP: w.Header().Set(h, val) for every
\* value of every header, so each Set replaces the value set before it
CopyHeaders(dst, src) ==
    [n \in HeaderNames |-> IF src[n] = <<>> THEN dst[n] ELSE <<src[n][Len(src[n])]>>]

\* net/http's ResponseWriters panic on a status code outside 100..999
ValidStatus(code) == code >= 100 /\ code <= 999

(***************************************************************************)
(* Recorder.ServeHTTP.                                                     *)
(***************************************************************************)
\* the server calls ServeHTTP with one of the requests R
ServeHTTPCall(t, R) ==
    /\ pc[t] = "idle"
    /\ \E r \in R : req' = [req EXCEPT ![t] = [r EXCEPT !.URL = t]]
    /\ kind' = [kind EXCEPT ![t] = "ServeHTTP"]
    /\ pc' = [pc EXCEPT ![t] = "sh.lock"]
    /\ UNCHANGED <<mu, Entries, ent, tm, hook, calls, tres, resp, capErr, ret, snap,
                   rw, hops, hwrote, w, doc, now>>
    /\ UNCHANGED varsTrace
    /\ UNCHANGED caller
    /\ UNCHANGED varsBody

\* c.mu.Lock(); defer c.mu.Unlock()
SH_Lock(t) ==
    /\ pc[t] = "sh.lock"
    /\ MutexFree(mu)
    /\ mu' = t
    /\ pc' = [pc EXCEPT ![t] = "sh.makeRequest"]
    /\ UNCHANGED <<kind, Entries, req, ent, tm, hook, calls, tres, resp, capErr, ret, snap,
                   rw, hops, hwrote, w, doc, now>>
    /\ UNCHANGED varsTrace
    /\ UNCHANGED caller
    /\ UNCHANGED varsBody

\* ent.Request, err = makeRequest(req), an error is only logged; then
\* responseWrapper := &HARResponseWriter{}, startTime := time.Now() and the
\* call of the wrapped handler
SH_MakeRequest(t) ==
    /\ pc[t] = "sh.makeRequest"
    /\ LET m == makeRequest(req[t])
       IN /\ ent' = [ent EXCEPT ![t].Request = m.r]
          /\ req' = [req EXCEPT ![t] = m.hr]
          /\ capErr' = [capErr EXCEPT ![t].req = m.err]
    /\ rw' = [rw EXCEPT ![t] = ZeroWriter]
    /\ tm' = [tm EXCEPT ![t].startTime = now]
    /\ calls' = [calls EXCEPT ![t] = @ + 1]
    /\ pc' = [pc EXCEPT ![t] = "sh.handler"]
    /\ UNCHANGED <<kind, mu, Entries, hook, tres, resp, ret, snap, hops, hwrote, w, doc, now>>
    /\ UNCHANGED varsTrace
    /\ UNCHANGED caller
    /\ UNCHANGED varsBody

\* the wrapped handler: w.Header().Add(n, v)
H_HeaderAdd(t, n, v, budget) ==
    /\ pc[t] = "sh.handler"
    /\ hops[t] < budget
    /\ rw' = [rw EXCEPT ![t].header = HeaderAdd(@, n, v)]
    /\ hwrote' = [hwrote EXCEPT ![t].header[n] = Append(@, v)]
    /\ hops' = [hops EXCEPT ![t] = @ + 1]
    /\ UNCHANGED <<kind, mu, Entries, pc, req, ent, tm, hook, calls, tres, resp, capErr, ret, snap,
                   w, doc, now>>
    /\ UNCHANGED varsTrace
    /\ UNCHANGED caller
    /\ UNCHANGED varsBody

\* the wrapped handler: w.WriteHeader(code)
H_WriteHeader(t, code, budget) ==
    /\ pc[t] = "sh.handler"
    /\ hops[t] < budget
    /\ rw' = [rw EXCEPT ![t] = WriteHeader(@, code)]
    /\ hwrote' = [hwrote EXCEPT ![t].status = code]
    /\ hops' = [hops EXCEPT ![t] = @ + 1]
    /\ UNCHANGED <<kind, mu, Entries, pc, req, ent, tm, hook, calls, tres, resp, capErr, ret, snap,
                   w, doc, now>>
    /\ UNCHANGED varsTrace
    /\ UNCHANGED caller
    /\ UNCHANGED varsBody

\* the wrapped handler: w.Write(b)
H_Write(t, b, budget) ==
    /\ pc[t] = "sh.handler"
    /\ hops[t] < budget
    /\ rw' = [rw EXCEPT ![t] = Write(@, b)]
    /\ hwrote' = [hwrote EXCEPT ![t].body = @ \o b]
    /\ hops' = [hops EXCEPT ![t] = @ + 1]
    /\ UNCHANGED <<kind, mu, Entries, pc, req, ent, tm, hook, calls, tres, resp, capErr, ret, snap,
                   w, doc, now>>
    /\ UNCHANGED varsTrace
    /\ UNCHANGED caller
    /\ UNCHANGED varsBody

\* the wrapped handler sends one of the requests R through the same Recorder:
\* it calls c.RoundTrip, here run as the call of the idle u, and waits for it
H_RoundTrip(t, u, R, budget) ==
    /\ pc[t] = "sh.handler"
    /\ hops[t] < budget
    /\ u # t
    /\ pc[u] = "idle"
    /\ \E r \in R : req' = [req EXCEPT ![u] = [r EXCEPT !.URL = u]]
    /\ kind' = [kind EXCEPT ![u] = "RoundTrip"]
    /\ caller' = [caller EXCEPT ![u] = t]
    /\ pc' = [pc EXCEPT ![t] = "sh.nested", ![u] = "rt.lock"]
    /\ hops' = [hops EXCEPT ![t] = @ + 1]
    /\ UNCHANGED <<mu, Entries, ent, tm, hook, calls, tres, resp, capErr, ret, snap,
                   rw, hwrote, w, doc, now>>
    /\ UNCHANGED varsTrace
    /\ UNCHANGED varsBody

\* c.Handler.ServeHTTP returns; ent.Time, ent.Start, Send = -1, Receive = -1
SH_HandlerReturn(t) ==
    /\ pc[t] = "sh.handler"
    /\ ent' = [ent EXCEPT ![t].Time = now - tm[t].startTime,
                          ![t].Start = tm[t].startTime,
                          ![t].Timings.Send = -1,
                          ![t].Timings.Receive = -1]
    /\ pc' = [pc EXCEPT ![t] = "sh.replay"]
    /\ UNCHANGED <<kind, mu, Entries, req, tm, hook, calls, tres, resp, capErr, ret, snap,
                   rw, hops, hwrote, w, doc, now>>
    /\ UNCHANGED varsTrace
    /\ UNCHANGED caller
    /\ UNCHANGED varsBody

\* copy the headers, w.WriteHeader(statusCode), w.Write(body), then
\* ent.Response, err = makeResponse(responseWrapper.AsResponse(req)), an error
\* is only logged. A status code that is no HTTP status makes a net/http
\* writer panic (the deferred Unlock runs); another writer may take it.
SH_Replay(t) ==
    /\ pc[t] = "sh.replay"
    /\ \E lenient \in BOOLEAN :
          IF ~ValidStatus(rw[t].statusCode) /\ ~lenient
          THEN /\ w' = [w EXCEPT ![t].header = CopyHeaders(@, rw[t].header)]
               /\ mu' = 0
               /\ pc' = [pc EXCEPT ![t] = "panicked"]
               /\ UNCHANGED <<ent, resp, capErr>>
          ELSE /\ w' = [w EXCEPT ![t] =
                           [header |-> CopyHeaders(@.header, rw[t].header),
                            status |-> rw[t].statusCode,
                            body   |-> @.body \o rw[t].body]]
               /\ LET m == makeResponse(AsResponse(rw[t]))
                  IN /\ ent' = [ent EXCEPT ![t].Response = m.r]
                     /\ resp' = [resp EXCEPT ![t] = m.hr]
                     /\ capErr' = [capErr EXCEPT ![t].resp = m.err]
               /\ pc' = [pc EXCEPT ![t] = "sh.append"]
               /\ UNCHANGED mu
    /\ UNCHANGED <<kind, Entries, req, tm, hook, calls, tres, ret, snap, rw, hops, hwrote, doc, now>>
    /\ UNCHANGED varsTrace
    /\ UNCHANGED caller
    /\ UNCHANGED varsBody

\* append(c.HAR.Log.Entries, ent) reads the slice
SH_AppendLoad(t) ==
    /\ pc[t] = "sh.append"
    /\ snap' = [snap EXCEPT ![t] = Entries]
    /\ pc' = [pc EXCEPT ![t] = "sh.appendStore"]
    /\ UNCHANGED <<kind, mu, Entries, req, ent, tm, hook, calls, tres, resp, capErr, ret,
                   rw, hops, hwrote, w, doc, now>>
    /\ UNCHANGED varsTrace
    /\ UNCHANGED caller
    /\ UNCHANGED varsBody

\* c.HAR.Log.Entries = the appended slice; the deferred Unlock
SH_AppendStore(t) ==
    /\ pc[t] = "sh.appendStore"
    /\ Entries' = Append(snap[t], ent[t])
    /\ mu' = 0
    /\ pc' = [pc EXCEPT ![t] = "done"]
    /\ UNCHANGED <<kind, req, ent, tm, hook, calls, tres, resp, capErr, ret, snap, rw, hops, hwrote,
                   w, doc, now>>
    /\ UNCHANGED varsTrace
    /\ UNCHANGED caller
    /\ UNCHANGED varsBody

(***************************************************************************)
(* Recorder.WriteFile: json.Marshal(c.HAR) reads the entry slice without   *)
(* taking the mutex.                                                       *)
(***************************************************************************)
\* what an unsynchronized read that began on the slice s can see when the log
\* is cur at its end: an append that ran meanwhile is seen, not seen, or seen
\* by its new length only, before the element is visible
DocOutcomes(s, cur) == IF cur = s THEN {s} ELSE {s, cur, Append(s, ZeroEntry)}

\* json.Marshal(c.HAR) starts to read c.HAR.Log.Entries
WriteFileMarshal(t) ==
    /\ pc[t] = "idle"
    /\ snap' = [snap EXCEPT ![t] = Entries]
    /\ kind' = [kind EXCEPT ![t] = "WriteFile"]
    /\ pc' = [pc EXCEPT ![t] = "wf.marshal"]
    /\ UNCHANGED <<mu, Entries, req, ent, tm, hook, calls, tres, resp, capErr, ret,
                   rw, hops, hwrote, w, doc, now>>
    /\ UNCHANGED varsTrace
    /\ UNCHANGED caller
    /\ UNCHANGED varsBody

\* len(data): the document has one unit per entry and the bytes of the two
\* body texts of each entry
RECURSIVE DocLen(_)
DocLen(d) ==
    IF d = <<>> THEN 0
    ELSE 1 + Len(Head(d).Request.Body.Content) + Len(Head(d).Response.Body.Content)
         + DocLen(Tail(d))

\* the document and the count of a WriteFile call that serialized d
Flushed(dc, d, s, cur) ==
    [dc EXCEPT !.written = TRUE, !.entries = d, !.n = DocLen(d), !.from = s, !.to = cur,
               !.flushes = @ + 1]

\* WriteFileWrite emptying the log once the file is written
WriteFileWriteClearing(t) ==
    /\ pc[t] = "wf.marshal"
    /\ \E d \in DocOutcomes(snap[t], Entries) :
          doc' = [doc EXCEPT ![t] = Flushed(@, d, snap[t], Entries)]
    /\ Entries' = <<>>
    /\ pc' = [pc EXCEPT ![t] = "done"]
    /\ UNCHANGED <<kind, mu, req, ent, tm, hook, calls, tres, resp, capErr, ret, snap,
                   rw, hops, hwrote, w, now>>
    /\ UNCHANGED varsTrace
    /\ UNCHANGED caller
    /\ UNCHANGED varsBody
\* json.Marshal is through; return len(data), os.WriteFile(filename, data, 0644)
WriteFileWrite(t) ==
    /\ pc[t] = "wf.marshal"
    /\ \E d \in DocOutcomes(snap[t], Entries) :
          doc' = [doc EXCEPT ![t] = Flushed(@, d, snap[t], Entries)]
    /\ pc' = [pc EXCEPT ![t] = "done"]
    /\ UNCHANGED <<kind, mu, Entries, req, ent, tm, hook, calls, tres, resp, capErr, ret, snap,
                   rw, hops, hwrote, w, now>>
    /\ UNCHANGED varsTrace
    /\ UNCHANGED caller
    /\ UNCHANGED varsBody

\* the goroutine that called WriteFile calls it again
WriteFileAgain(t) ==
    /\ pc[t] = "done"
    /\ kind[t] = "WriteFile"
    /\ doc[t].flushes < MaxFlushes
    /\ doc' = [doc EXCEPT ![t].written = FALSE,
                          ![t].prev = [entries |-> doc[t].entries, n |-> doc[t].n,
                                       from |-> doc[t].from, to |-> doc[t].to]]
    /\ snap' = [snap EXCEPT ![t] = Entries]
    /\ pc' = [pc EXCEPT ![t] = "wf.marshal"]
    /\ UNCHANGED <<kind, mu, Entries, req, ent, tm, hook, calls, tres, resp, capErr, ret,
                   rw, hops, hwrote, w, now>>
    /\ UNCHANGED varsTrace
    /\ UNCHANGED caller
    /\ UNCHANGED varsBody


(***************************************************************************)
(* The environments and the specifications.                                *)
(***************************************************************************)
\* requests of the concurrent callers: no body, a raw body with and without a
\* declared type, a body whose read fails, a form body that does not parse
ReqsConc ==
    {HTTPRequest("GET", 0, "", NilBody, NoMultipartForm),
     HTTPRequest("POST", 0, "text/plain", NewReader(<<"k">>), NoMultipartForm),
     HTTPRequest("POST", 0, "", NewReader(<<"v">>), NoMultipartForm),
     HTTPRequest("POST", 0, "text/plain", [NewReader(<<"k">>) EXCEPT !.bad = TRUE],
                 NoMultipartForm),
     HTTPRequest("POST", 0, FormURLEncoded, NewReader(<<"%">>), NoMultipartForm)}

\* requests of the single call of SpecTxn
ReqsTxn ==
    {HTTPRequest("GET", 0, "", NilBody, NoMultipartForm),
     HTTPRequest("POST", 0, "text/plain", NewReader(<<"k">>), NoMultipartForm)}

\* what the wrapped RoundTripper returns: a response, a response whose body
\* fails to read, an error, an error beside a response
TransportResults ==
    {[resp |-> HTTPResponse(200, HeaderWithCT("text/plain"), NewReader(<<"v">>)), err |-> NoErr],
     [resp |-> HTTPResponse(200, EmptyHeader, [NewReader(<<"v">>) EXCEPT !.bad = TRUE]),
      err |-> NoErr],
     [resp |-> NilResponse, err |-> "connection refused"],
     [resp |-> HTTPResponse(502, EmptyHeader, NewReader(<<>>)), err |-> "context canceled"]}

\* what the handler of SpecTxn writes
HandlerHeaderValues == {"text/plain", "b"}
HandlerCodes == {200, 404}
HandlerChunks == {<<"k">>, <<"v">>}
\* addresses a DNS lookup resolved
ResolvedAddrs == {<<>>, <<"10.0.0.1">>}

RoundTripStep(t, R) ==
    \/ RoundTripCall(t, R)
    \/ RT_Lock(t)
    \/ RT_MakeRequest(t)
    \/ RT_TransportReturn(t, TransportResults)
    \/ RT_MakeResponse(t)
    \/ RT_AppendLoad(t)
    \/ RT_AppendStore(t)

ServeHTTPStep(t, R) ==
    \/ ServeHTTPCall(t, R)
    \/ SH_Lock(t)
    \/ SH_MakeRequest(t)
    \/ SH_HandlerReturn(t)
    \/ SH_Replay(t)
    \/ SH_AppendLoad(t)
    \/ SH_AppendStore(t)

\* Spec: NumTasks goroutines, each making one call on the same Recorder
Init == InitRec /\ IdleBody

Next ==
    \E t \in Tasks :
        \/ RoundTripStep(t, ReqsConc)
        \/ ServeHTTPStep(t, ReqsConc)
        \/ H_WriteHeader(t, 404, 1)
        \/ H_Write(t, <<"v">>, 1)
        \/ WriteFileMarshal(t)
        \/ WriteFileWrite(t)

Spec == Init /\ [][Next]_vars

\* SpecTxn: one call, with the clock, the trace hooks and the handler's writes
TraceHook(t) ==
    \/ GetConn(t)
    \/ GotConn(t)
    \/ DNSStart(t)
    \/ \E addrs \in ResolvedAddrs : DNSDone(t, addrs)
    \/ ConnectStart(t)
    \/ ConnectDone(t)
    \/ TLSHandshakeStart(t)
    \/ TLSHandshakeDone(t)
    \/ WroteRequest(t)
    \/ GotFirstResponseByte(t)

HandlerStep(t) ==
    \/ \E n \in HeaderNames, v \in HandlerHeaderValues : H_HeaderAdd(t, n, v, MaxHandlerOps)
    \/ \E code \in HandlerCodes : H_WriteHeader(t, code, MaxHandlerOps)
    \/ \E b \in HandlerChunks : H_Write(t, b, MaxHandlerOps)

NextTxn ==
    \/ Tick
    \/ RoundTripStep(1, ReqsTxn)
    \/ TraceHook(1)
    \/ ServeHTTPStep(1, ReqsTxn)
    \/ HandlerStep(1)

SpecTxn == Init /\ [][NextTxn]_vars

\* SpecLog: the goroutines of Spec on the requests of SpecTxn, a goroutine
\* calling WriteFile repeatedly, and trace hooks that fire late
NextLog ==
    \E t \in Tasks :
        \/ RoundTripStep(t, ReqsTxn)
        \/ \E addrs \in ResolvedAddrs \ {<<>>} : LateDNSDone(t, addrs)
        \/ ServeHTTPStep(t, ReqsTxn)
        \/ H_Write(t, <<"v">>, 1)
        \/ WriteFileMarshal(t)
        \/ WriteFileWrite(t)
        \/ WriteFileAgain(t)

SpecLog == Init /\ [][NextLog]_vars

\* SpecNested: the goroutines of Spec with handlers that send outgoing
\* requests through the Recorder that records them
NextNested ==
    \E t \in Tasks :
        \/ RoundTripStep(t, ReqsTxn)
        \/ ServeHTTPStep(t, ReqsTxn)
        \/ H_Write(t, <<"v">>, 1)
        \/ \E u \in Tasks : H_RoundTrip(t, u, ReqsTxn, 1)

SpecNested == Init /\ [][NextNested]_vars

\* SpecBody: makeRequest / makeResponse on every bounded input
InitB == InitBody /\ InitRec

SpecBody == InitB /\ [][NextBody]_vars

\* SpecHeaders: the headers and query of every bounded message
InitH == InitHeaders /\ InitRec

SpecHeaders == InitH /\ [][NextHeaders]_vars


(***************************************************************************)
(* Properties.                                                             *)
(***************************************************************************)
\* the entries recorded for the transaction of goroutine t (its URL is t)
EntriesOf(t) == {i \in DOMAIN Entries : Entries[i].Request.URL = t}
Captures == {t \in Tasks : kind[t] \in {"RoundTrip", "ServeHTTP"}}
\* every call made so far has returned
Quiescent == \A t \in Tasks : pc[t] \in {"idle", "done", "panicked"}
\* the wrapped transport returned a response and no error, or the wrapped
\* handler returned
WrappedSucceeded(t) ==
    \/ kind[t] = "RoundTrip" /\ tres[t].called /\ tres[t].err = NoErr
    \/ kind[t] = "ServeHTTP" /\ pc[t] \in {"sh.replay", "sh.append", "sh.appendStore",
                                           "done", "panicked"}
IsPrefix(a, b) == Len(a) <= Len(b) /\ SubSeq(b, 1, Len(a)) = a

\* C1: once N concurrent RoundTrip / ServeHTTP calls whose wrapped calls all
\* succeeded have returned, the log holds exactly N entries, one per
\* transaction.
C1_OneEntryPerTransaction ==
    (Quiescent /\ \A t \in Captures : WrappedSucceeded(t))
        => /\ Len(Entries) = Cardinality(Captures)
           /\ \A t \in Captures : Cardinality(EntriesOf(t)) = 1

\* C2: when the wrapped transport returns an error, RoundTrip has returned
\* that error with the response the transport returned, and no entry of that
\* transaction is in the log.
C2_TransportErrorPropagates ==
    \A t \in Tasks :
        (tres[t].called /\ tres[t].err # NoErr)
            => /\ pc[t] = "done"
               /\ ret[t] = [returned |-> TRUE, resp |-> tres[t].resp, err |-> tres[t].err]
               /\ EntriesOf(t) = {}

\* C2 witness: a RoundTrip returned its transport's error and the response
\* beside it while the log holds the entry of another transaction.
C2_Witness ==
    \E t \in Tasks :
        /\ tres[t].called /\ tres[t].err # NoErr /\ ~tres[t].resp.nil
        /\ ret[t].returned
        /\ Len(Entries) > 0

\* C3: after a capture that succeeded on a message with a body, the stream
\* left on the message is at its start and holds the original bytes, and the
\* next reader reads exactly them.
C3_BodyRoundTrip ==
    LET b == IF bpc \in {"capturedRequest", "readRequest"} THEN bhr.Body ELSE bres.Body
    IN /\ (bpc \in {"capturedRequest", "capturedResponse"} /\ bcap.err = NoErr /\ ~b.nil)
            => (b.pos = 0 /\ b.data = bin /\ ~b.bad)
       /\ (bpc \in {"readRequest", "readResponse"} /\ bcap.err = NoErr /\ ~b.nil)
            => bgot = bin

\* C3 witness: a POSTed form body of three bytes was parsed into parameters
\* and then read back in full by the next reader.
C3_Witness ==
    /\ bpc = "readRequest"
    /\ bcap.err = NoErr
    /\ bcap.r.Body.MIMEType = FormURLEncoded
    /\ bcap.r.Body.Params # <<>>
    /\ Len(bin) = 3
    /\ bgot = bin

\* the sum of the timings that are not the -1 sentinel
NonSentinel(x) == IF x = -1 THEN 0 ELSE x
SumOfTimings(tt) ==
    NonSentinel(tt.Blocked) + NonSentinel(tt.DNS) + NonSentinel(tt.Connect)
    + NonSentinel(tt.Send) + NonSentinel(tt.Wait) + NonSentinel(tt.Receive)

\* C4: in every appended entry, Time is the sum of the timings that are not
\* the -1 sentinel (blocked, dns, connect, send, wait, receive).
C4_TimeIsSumOfTimings ==
    \A i \in DOMAIN Entries : Entries[i].Time = SumOfTimings(Entries[i].Timings)

\* C5: the mutex is held only for the step that appends the entry, not
\* during request capture, the wrapped call or response capture.
C5_LockOnlyAroundAppend ==
    \A t \in Tasks :
        mu = t => pc[t] \in {"rt.append", "rt.appendStore", "sh.append", "sh.appendStore"}

\* C6: the read of the entries by WriteFile never overlaps the append of a
\* capture, and every document written holds the entries of one state of the
\* log.
C6_WriteFileSynchronized ==
    /\ \A t1, t2 \in Tasks :
          ~(pc[t1] = "wf.marshal" /\ pc[t2] \in {"rt.appendStore", "sh.appendStore"})
    /\ \A t \in Tasks : doc[t].written => IsPrefix(doc[t].entries, Entries)

\* C7: no entry is in the log for a transaction whose request capture or
\* response capture failed.
C7_NoEntryForFailedCapture ==
    \A t \in Tasks :
        (capErr[t].req # NoErr \/ capErr[t].resp # NoErr) => EntriesOf(t) = {}

\* the same response up to the replacement of its body stream by an equal one
SameResponse(a, b) ==
    /\ a.nil = b.nil
    /\ a.StatusCode = b.StatusCode
    /\ a.Header = b.Header
    /\ Remaining(a.Body) = Remaining(b.Body)

\* C8: every RoundTrip that returned made the wrapped call and returned the
\* (response, error) pair the wrapped transport produced, also when a capture
\* failed.
C8_RoundTripTransparent ==
    \A t \in Tasks :
        ret[t].returned
            => /\ tres[t].called
               /\ ret[t].err = tres[t].err
               /\ SameResponse(ret[t].resp, tres[t].resp)

\* C9: after the replay of ServeHTTP the real ResponseWriter holds every
\* header value and every body byte the handler wrote, in order.
C9_ReplayExact ==
    \A t \in Tasks :
        (kind[t] = "ServeHTTP" /\ pc[t] \in {"sh.append", "sh.appendStore", "done"})
            => /\ w[t].header = hwrote[t].header
               /\ w[t].body = hwrote[t].body

\* C10: in every appended entry the MIME type of the request body and of the
\* response body is non-empty.
C10_MIMETypeNeverEmpty ==
    \A i \in DOMAIN Entries :
        /\ Entries[i].Request.Body.MIMEType # ""
        /\ Entries[i].Response.Body.MIMEType # ""

\* the Content-Type of the request given to makeRequest
DeclaredType == HeaderGet(bhr.Header, "Content-Type")
\* how often x occurs in the sequence s
Count(s, x) == Cardinality({i \in DOMAIN s : s[i] = x})
\* the same elements, each as often, in whatever order
SameElements(a, b) ==
    /\ Len(a) = Len(b)
    /\ \A i \in DOMAIN a : Count(a, a[i]) = Count(b, a[i])

\* C11: after the capture of a request of any method that declares
\* application/x-www-form-urlencoded and has a well-formed body, Body.Params
\* holds exactly one Param per key/value pair of the body and the raw Content
\* is empty.
C11_FormParamsForAnyMethod ==
    (/\ bpc = "capturedRequest"
     /\ DeclaredType = FormURLEncoded
     /\ ~bhr.Body.nil
     /\ bcap.err = NoErr
     /\ ParseQuery(bin).err = NoErr)
        => /\ SameElements(bcap.r.Body.Params, ValueParams(ParseQuery(bin).vals))
           /\ bcap.r.Body.Content = <<>>

\* the Content-Type values that declare a multipart form
MultipartTypes == {"multipart/form-data; boundary=x", "multipart/form-data", "form-data"}

\* C12: after the capture of a request that declares multipart/form-data
\* (with its boundary parameter) or form-data, Body.Params holds one Param per
\* file part and one per plain field of the form, and the raw Content is
\* empty.
C12_MultipartParamsOnly ==
    (/\ bpc = "capturedRequest"
     /\ DeclaredType \in MultipartTypes
     /\ ~bhr.Body.nil
     /\ bcap.err = NoErr)
        => /\ SameElements(bcap.r.Body.Params,
                           FileParams(bhr.MultipartForm.File)
                           \o ValueParams(bhr.MultipartForm.Value))
           /\ bcap.r.Body.Content = <<>>

\* the request had no body, or a body of no bytes whose read succeeded
AbsentOrEmptyBody == bin = <<>> /\ bcap.err # "read error"
NothingRecorded ==
    /\ bcap.r.BodySize = 0
    /\ bcap.r.Body.Content = <<>>
    /\ bcap.r.Body.Params = <<>>
    /\ bcap.err = NoErr

ParseErrors ==
    {"invalid URL escape", "no multipart boundary param in Content-Type",
     "request Content-Type isn't multipart/form-data"}

\* C17: when makeRequest returned the error of ParseForm or of
\* ParseMultipartForm, the body stream of the request is at its start, holds
\* the original bytes, and the next reader reads all of them.
C17_BodyRestoredAfterParseFailure ==
    /\ (bpc = "capturedRequest" /\ bcap.err \in ParseErrors)
          => (bhr.Body.pos = 0 /\ bhr.Body.data = bin)
    /\ (bpc = "readRequest" /\ bcap.err \in ParseErrors) => bgot = bin

\* C14: no step of RoundTrip, ServeHTTP, WriteFile or of a trace hook removes,
\* reorders or changes an appended entry: the entries before every step are a
\* prefix of the entries after it.
C14_AppendOnly == [][IsPrefix(Entries, Entries')]_vars

\* C14 witness: two entries are in the log, and a trace hook that fired after
\* the append has changed the ent of a call whose entry in the log is as it
\* was appended.
C14_Witness ==
    /\ Len(Entries) >= 2
    /\ \E t \in Tasks :
          /\ kind[t] = "RoundTrip"
          /\ pc[t] = "done"
          /\ "DNSDone" \in fired[t]
          /\ \E i \in EntriesOf(t) : Entries[i] # ent[t] /\ Entries[i].ServerIP = ""

\* the WriteFile calls that have returned: the last one of every goroutine
\* and the one before it
Flushes ==
    {[entries |-> doc[t].entries, n |-> doc[t].n, from |-> doc[t].from, to |-> doc[t].to] :
        t \in {u \in Tasks : doc[u].written}}
    \cup {doc[t].prev : t \in {u \in Tasks : doc[u].flushes >= 2 \/
                                            (doc[u].flushes = 1 /\ ~doc[u].written)}}
\* no append took effect from the start of the earlier of two WriteFile calls
\* to the end of the later
NoAppendBetween(a, b) == a.from = a.to /\ a.to = b.from /\ b.from = b.to

C16_WrappedCalledOnce ==
    \A t \in Tasks :
        /\ calls[t] <= 1
        /\ Cardinality(EntriesOf(t)) <= 1
        /\ (kind[t] = "RoundTrip" /\ ret[t].returned /\ capErr[t].req = NoErr) => calls[t] = 1
        /\ (kind[t] = "ServeHTTP" /\ pc[t] \in {"sh.replay", "sh.append", "sh.appendStore",
                                                "done", "panicked"}) => calls[t] = 1

\* C16 witness: a RoundTrip returned the error of its transport after one
\* call of it, and a ServeHTTP whose request capture failed has returned with
\* one call of the handler and one entry.
C16_Witness ==
    \E t1, t2 \in Tasks :
        /\ kind[t1] = "RoundTrip" /\ ret[t1].returned /\ tres[t1].err # NoErr
        /\ calls[t1] = 1
        /\ kind[t2] = "ServeHTTP" /\ pc[t2] = "done" /\ capErr[t2].req # NoErr
        /\ calls[t2] = 1 /\ Cardinality(EntriesOf(t2)) = 1

\* C18: every entry appended by ServeHTTP has Timings.Receive equal to
\* Entry.Time, the wall-clock time of the handler call, and -1 in send, wait,
\* blocked, dns, connect and ssl.
C18_ServerTimings ==
    \A t \in Tasks : \A i \in EntriesOf(t) :
        kind[t] = "ServeHTTP"
            => /\ Entries[i].Timings.Receive = Entries[i].Time
               /\ \A f \in {"Send", "Wait", "Blocked", "DNS", "Connect", "SSL"} :
                     Entries[i].Timings[f] = -1

\* in the entry of a RoundTrip no timing is negative, and dns, connect and
\* ssl are 0 when their start hook never fired
ClientTimingsSane(t, e) ==
    /\ \A f \in DOMAIN ZeroTimings : e.Timings[f] >= 0
    /\ "DNSStart" \notin fired[t] => e.Timings.DNS = 0
    /\ "ConnectStart" \notin fired[t] => e.Timings.Connect = 0
    /\ "TLSHandshakeStart" \notin fired[t] => e.Timings.SSL = 0

\* C19 as stated: in the entry of a RoundTrip no timing is negative, dns,
\* connect and ssl are 0 when their start hook never fired, and send is 0
\* when no connection was established (ConnectDone never fired).
C19_UnfiredPhasesZero ==
    \A t \in Tasks : \A i \in EntriesOf(t) :
        kind[t] = "RoundTrip"
            => /\ ClientTimingsSane(t, Entries[i])
               /\ "ConnectDone" \notin fired[t] => Entries[i].Timings.Send = 0

\* C19: in the entry of a RoundTrip no timing is negative, dns, connect and
\* ssl are 0 when their start hook never fired, send is 0 when WroteRequest
\* never fired, and when no connection was established send is the time from
\* the start of the call to WroteRequest.
C19_ClientTimings ==
    \A t \in Tasks : \A i \in EntriesOf(t) :
        kind[t] = "RoundTrip"
            => /\ ClientTimingsSane(t, Entries[i])
               /\ "WroteRequest" \notin fired[t] => Entries[i].Timings.Send = 0
               /\ ("WroteRequest" \in fired[t] /\ "ConnectDone" \notin fired[t])
                     => Entries[i].Timings.Send = tm[t].waitStart - Entries[i].Start

\* C19 witness: the entry of a RoundTrip on a reused connection (no DNS,
\* connect or TLS hook) that began after the clock had advanced and waited for
\* its connection: send is positive, dns, connect and ssl are 0.
C19_Witness ==
    \E t \in Tasks : \E i \in EntriesOf(t) :
        /\ kind[t] = "RoundTrip"
        /\ fired[t] = {"GetConn", "GotConn", "WroteRequest", "GotFirstResponseByte"}
        /\ Entries[i].Start > 0
        /\ Entries[i].Timings.Send > 0
        /\ Entries[i].Timings.Blocked > 0

\* the DNSDone hook of the call was given no resolved address
LookupFailed(t) == "DNSDone" \in fired[t] /\ dnsInfo[t] = <<>>

\* C20: after a DNSDone without a resolved address the hook has completed
\* and the call goes on, no server IP is recorded, and once the transport
\* returned its error RoundTrip has returned that error and appended no entry.
C20_FailedLookup ==
    \A t \in Tasks :
        LookupFailed(t)
            => /\ pc[t] # "panicked"
               /\ ent[t].ServerIP = ""
               /\ (tres[t].called /\ tres[t].err # NoErr)
                     => /\ ret[t] = [returned |-> TRUE, resp |-> tres[t].resp,
                                     err |-> tres[t].err]
                        /\ EntriesOf(t) = {}

\* C21: no call is stuck: a RoundTrip that a handler made through the same
\* Recorder never waits for the mutex that the ServeHTTP call running the
\* handler holds until the handler returns.
C21_NestedCallCompletes ==
    \A u \in Tasks :
        (caller[u] # 0 /\ pc[u] = "rt.lock") => mu # caller[u]

\* the handler of the ServeHTTP call t has returned and its response was
\* replayed
Replayed(t) == kind[t] = "ServeHTTP" /\ pc[t] \in {"sh.append", "sh.appendStore", "done"}

\* C23: when the handler wrote body bytes without a WriteHeader, the
\* capturing writer holds status 200 from that Write on, and 200 is replayed
\* and recorded; when the handler called WriteHeader, the capturing writer
\* holds the status it gave last, whatever it wrote afterwards, and that
\* status is replayed and recorded.
C23_DefaultStatusOnWrite ==
    \A t \in Tasks :
        LET expected == IF hwrote[t].status # 0 THEN hwrote[t].status ELSE 200
        IN (kind[t] = "ServeHTTP" /\ (hwrote[t].body # <<>> \/ hwrote[t].status # 0))
              => /\ rw[t].statusCode = expected
                 /\ Replayed(t) => (w[t].status = expected
                                    /\ ent[t].Response.StatusCode = expected)
                 /\ \A i \in EntriesOf(t) : Entries[i].Response.StatusCode = expected

\* C23 witness: the entry of a handler that only wrote body bytes records 200,
\* and the real writer got 200.
C23_Witness ==
    \E t \in Tasks : \E i \in EntriesOf(t) :
        /\ kind[t] = "ServeHTTP"
        /\ hwrote[t].status = 0
        /\ hwrote[t].body # <<>>
        /\ Entries[i].Response.StatusCode = 200
        /\ w[t].status = 200

\* C24: once the handler of a ServeHTTP call has returned, the call replays
\* and records a valid status: the one the handler gave, or 200 when it gave
\* none, also when it neither called WriteHeader nor Write.
C24_StatusAlwaysValid ==
    \A t \in Tasks :
        LET expected == IF hwrote[t].status # 0 THEN hwrote[t].status ELSE 200
        IN /\ (kind[t] = "ServeHTTP" /\ pc[t] = "panicked") => ValidStatus(rw[t].statusCode)
           /\ Replayed(t) => (w[t].status = expected /\ ent[t].Response.StatusCode = expected)
           /\ \A i \in EntriesOf(t) :
                 kind[t] = "ServeHTTP" => Entries[i].Response.StatusCode = expected

\* the http.Header of the message whose headers are captured
CapturedHeader ==
    IF bpc \in {"requestHeaders", "capturedRequestHeaders", "recapturedRequestHeaders"}
    THEN bhr.Header ELSE bres.Header

\* C22: every capture of a message has one header pair per header value,
\* the values of a header in their order, and the query parameters in the
\* order of the URL; two captures of the same message give the same headers
\* and the same query parameters.
C22_SourceOrderKept ==
    /\ \A i \in DOMAIN bmeta :
          /\ \A n \in HeaderNames : ValuesOf(bmeta[i].Headers, n) = CapturedHeader[n]
          /\ Len(bmeta[i].Headers) = Len(CapturedHeader["Content-Type"])
                                     + Len(CapturedHeader["Set-Cookie"])
          /\ bmeta[i].QueryParams = ParseQuery(bquery).vals
    /\ \A i, j \in DOMAIN bmeta :
          /\ bmeta[i].Headers = bmeta[j].Headers
          /\ bmeta[i].QueryParams = bmeta[j].QueryParams

\* C25: HeadersSize of every capture is the size of the header block on the
\* wire: every line "Name: value" CRLF (len(name) + 2 + len(value) + 2) and
\* the CRLF of the blank line that ends the block; it is never -1.
C25_HeadersSizeIsWireSize ==
    \A i \in DOMAIN bmeta :
        /\ bmeta[i].HeadersSize = HeaderWriteLen(CapturedHeader, HeaderNames) + 2
        /\ bmeta[i].HeadersSize # -1

=============================================================================
